---- MODULE Spec2Model ----
(***************************************************************************)
(* Model of the knowledge-resolution cascade (src/tools.py,                *)
(* search_knowledge_base with its cache helpers) and of the conversation   *)
(* routing nodes (src/node.py).                                            *)
(***************************************************************************)
EXTENDS Integers, Sequences, FiniteSets, TLC

\* ------------------------------------------------------------------ bounds
\* Longest response a backend returns in the model.
MaxRows == 2
\* Number of search_knowledge_base calls in one behaviour.
MaxCalls == 2
\* Longest supervisor response text, in words.
MaxTextLen == 2
\* Number of conversation turns in one behaviour.
MaxTurns == 2
\* Number of node executions in one turn.
MaxSteps == 4
MaxResponses == 2
\* concurrent callers of search_knowledge_base
MaxWorkers == 2
\* messages a state holds before a call of add_message_to_state
MaxMessages == 2
\* concurrent callers of the session and chat managers, and the calls each
\* of them makes
MaxProcs == 2
MaxOps == 2

\* ------------------------------------------------------- program constants
\* similarity placeholder of the direct-connection fallback, in hundredths
DirectSimilarity == 75
\* similarity placeholder of the API keyword fallback, in hundredths
KeywordSimilarity == 80
\* expire: int = 3600, the TTL set_in_cache gives every entry (seconds)
CacheTtl == 3600
\* keywords[:3]
KeywordLimit == 3
\* len(keyword) > 2
MinKeywordLen == 2

VARIABLES
    \* module-level handles of src/tools.py
    supabase_available, DB_USER, vector_store, redis_available,
    \* the Redis store: query -> entry (cache_key = "kb_search:" + query)
    redis_data,
    \* one search_knowledge_base call: position, argument, locals, return value
    pc, query, results, ret, escaped,
    \* observation of the running call: strategies invoked (in order), the
    \* strategy that appended each element of results, strategies that failed,
    \* the rows the direct query returned, cache reads / writes, cache hit,
    \* what the probe found
    calls, origin, failed, db_rows, cacheReads, cacheWrites, written, hit, probed,
    \* the previous completed call, and the number of calls started
    prev, ncalls,
    \* the keywords the direct stage built its SQL conditions from, and the
    \* queries whose key was deleted and not probed since
    conditions, deleted,
    \* the keyword the API keyword fallback searched for
    main_keyword,
    \* the request get_current_user is handling, the call of update_state /
    \* add_message_to_state in progress, and concurrent callers of
    \* search_knowledge_base
    auth, chat, workers,
    \* the Redis keys of SessionManager and ChatManager, the concurrent
    \* callers of their methods, and the sessions whose invalidation returned
    \* True
    store, procs, invalidated,
    \* the graph of src/graph.py: the node to run next, and the state dict the
    \* nodes of src/node.py read and update
    node, messages, specialists_to_call, routing_reasons, context,
    final_response, error, specialist_responses,
    \* the Command supervisor_node returned last in the turn, a Command of
    \* an earlier supervisor run kept for comparison, node executions in the
    \* turn, turns started, and the specialist nodes run since that Command
    decision, first, steps, turns, executed

cascadeVars == <<supabase_available, DB_USER, vector_store, redis_available,
                 redis_data, pc, query, results, ret, escaped, calls, origin,
                 failed, db_rows, cacheReads, cacheWrites, written, hit, probed, prev,
                 ncalls, conditions, main_keyword, deleted>>

managerVars == <<store, procs, invalidated>>

serviceVars == <<auth, chat, workers, managerVars>>

routingVars == <<node, messages, specialists_to_call, routing_reasons, context,
                 final_response, error, specialist_responses, decision, first,
                 steps, turns, executed>>

vars == <<cascadeVars, routingVars, serviceVars>>

\* ------------------------------------------------------------------ values
Strategies == <<"similarity", "procedure", "direct", "keyword">>
StrategySet == {Strategies[i] : i \in 1..Len(Strategies)}

\* Exceptions a backend call or a malformed item raises; all derive from Exception.
ExcKinds == {"ConnectionError", "AttributeError"}

\* A malformed item of a response (e.g. None where a row is expected).
Bad == 0

\* query tokens (whitespace-split words) and their lengths
Tokens == {"Solar", "solar", "jobs", "in", "MA", "ma", "at"}
TokenLen(t) == CASE t \in {"Solar", "solar"} -> 5
                 [] t = "jobs" -> 4
                 [] OTHER -> 2
\* str.lower() on one token
LowerToken(t) == CASE t = "Solar" -> "solar"
                   [] t = "MA" -> "ma"
                   [] OTHER -> t
\* query.lower().split()
LowerSplit(q) == [i \in 1..Len(q) |-> LowerToken(q[i])]

Queries == { <<"Solar", "jobs">>, <<"in", "MA", "at", "solar">>, <<>> }

\* the synthetic records
NotAvailableRecord == [error |-> "Knowledge base is not available"]
SearchFailedRecord == [error |-> "Search failed"]

\* the record every stage appends for a row
Record(id, sim) == [id |-> id, similarity |-> sim]
\* the score a ranking backend reports for a row
ScoreOf(id) == 90 + id

\* what a backend call does: raise, or answer with a list of items of which
\* the first malformed one (if any) is the last that is read
GoodRows(k) == [i \in 1..k |-> i]
Responses == {GoodRows(k) : k \in 0..MaxRows}
             \cup {Append(GoodRows(k), Bad) : k \in 0..(MaxRows - 1)}
Outcomes == {[raise |-> e, data |-> <<>>] : e \in ExcKinds}
            \cup {[raise |-> "none", data |-> d] : d \in Responses}
\* supabase_admin and embeddings are None/undefined when Supabase failed to initialise
OutcomesOf(strategy) ==
    IF ~supabase_available /\ strategy \in {"procedure", "keyword"}
    THEN {[raise |-> "AttributeError", data |-> <<>>]}
    ELSE Outcomes

\* no key of the managers in Redis and no caller of their methods
EmptyStore == [session |-> <<>>, index |-> {}, meta |-> <<>>, list |-> <<>>]
NoProcs == <<>>
ManagersIdle == store = EmptyStore /\ procs = NoProcs /\ invalidated = {}

AuthIdle == [pc |-> "idle"]
ChatIdle == [pc |-> "idle"]
NoWorkers == <<>>

\* ------------------------------------------------------------ cache helpers
NoEntry == [present |-> FALSE, data |-> <<>>, ttl |-> 0]
\* redis_client.setex(key, expire, data)
Setex(expire, data) == [present |-> TRUE, data |-> data, ttl |-> expire]
None == [none |-> TRUE, val |-> <<>>]
Some(v) == [none |-> FALSE, val |-> v]
\* Python truthiness of an Optional[list]
Truthy(o) == ~o.none /\ Len(o.val) > 0

\* a serialiser that keeps only the id of each record
JsonDumpsIdOnly(value) ==
    [i \in 1..Len(value) |-> {<<"id", value[i].id>>}]
\* json.dumps / json.loads of a list of records
JsonDumps(value) ==
    [i \in 1..Len(value) |-> {<<f, value[i][f]>> : f \in DOMAIN value[i]}]
JsonLoads(data) ==
    [i \in 1..Len(data) |->
        [f \in {p[1] : p \in data[i]} |-> (CHOOSE p \in data[i] : p[1] = f)[2]]]

\* a read that hands back the entry although the Redis command failed
get_from_cache_ignoring_failure(key, redisOk) ==
    IF ~redis_available THEN None
    ELSE IF redis_data[key].present THEN Some(JsonLoads(redis_data[key].data))
    ELSE None
\* get_from_cache(key): None when Redis is unavailable, the operation fails
\* (redisOk = FALSE) or the key is absent
get_from_cache(key, redisOk) ==
    IF ~redis_available \/ ~redisOk THEN None
    ELSE IF redis_data[key].present THEN Some(JsonLoads(redis_data[key].data))
    ELSE None

\* redis_client.set in place of setex: the entry gets no expiry
set_in_cache_no_expiry(key, value, redisOk) ==
    IF ~redis_available \/ ~redisOk THEN redis_data
    ELSE [redis_data EXCEPT ![key] = Setex(0, JsonDumps(value))]
\* a write that reads the entry and appends to it
set_in_cache_appending(key, value, redisOk) ==
    IF ~redis_available \/ ~redisOk THEN redis_data
    ELSE [redis_data EXCEPT ![key] =
             Setex(CacheTtl, redis_data[key].data \o JsonDumps(value))]
\* set_in_cache(key, value): the store after the call
set_in_cache(key, value, redisOk) ==
    IF ~redis_available \/ ~redisOk THEN redis_data
    ELSE [redis_data EXCEPT ![key] = Setex(CacheTtl, JsonDumps(value))]

\* direct_db_query: rows, or [] when connecting or executing fails
direct_db_query(outcome) ==
    IF outcome.raise # "none" THEN <<>> ELSE outcome.data

\* handlers written as `except AttributeError`
CatchesAttributeErrorOnly(handler, exc) == exc = "AttributeError"
\* `except Exception` of a handler catches every exception kind
Catches(handler, exc) == TRUE

\* ------------------------------------------------------------ stage helpers
Min(a, b) == IF a < b THEN a ELSE b
\* index of the first malformed item, Len + 1 when there is none
FirstBad(data) ==
    IF \E i \in 1..Len(data) : data[i] = Bad
    THEN CHOOSE i \in 1..Len(data) :
            data[i] = Bad /\ \A j \in 1..(i - 1) : data[j] # Bad
    ELSE Len(data) + 1
\* the for-loop of a stage over a response: records appended before the
\* loop ends or the first malformed item raises
\* similarity the backend reports per row, and the fixed placeholder of the
\* fallbacks
Reported == [id \in 1..MaxRows |-> ScoreOf(id)]
Placeholder(value) == [id \in 1..MaxRows |-> value]
LoopRecords(data, simOf) ==
    [i \in 1..(FirstBad(data) - 1) |-> Record(data[i], simOf[data[i]])]
LoopRaises(data) == FirstBad(data) <= Len(data)

\* conditions of the direct stage: first 3 tokens, those longer than 2
Conditions(q) ==
    LET kw == LowerSplit(q)
        head == SubSeq(kw, 1, Min(KeywordLimit, Len(kw)))
    IN SelectSeq(head, LAMBDA t : TokenLen(t) > MinKeywordLen)

\* main_keyword = keywords[0] of the API keyword fallback
MainKeyword(q) == LowerSplit(q)[1]

Tag(n, s) == [i \in 1..n |-> s]

\* where control goes when a stage's try block raises exc: the stage's own
\* handler, else the outer handler of search_knowledge_base, else the caller
Propagate(handler, exc, nextPc) ==
    IF Catches(handler, exc)
    THEN [pc |-> nextPc, ret |-> <<>>, escaped |-> FALSE]
    ELSE IF Catches("outer", exc)
    THEN [pc |-> "returned", ret |-> <<SearchFailedRecord>>, escaped |-> FALSE]
    ELSE [pc |-> "raised", ret |-> <<>>, escaped |-> TRUE]
Continue(nextPc) == [pc |-> nextPc, ret |-> <<>>, escaped |-> FALSE]

\* the exception a stage's try block ends with ("none": it completes)
StageExc(o, data) ==
    IF o.raise # "none" THEN o.raise
    ELSE IF LoopRaises(data) THEN "AttributeError" ELSE "none"

NoWrite == [done |-> FALSE, value |-> <<>>]
NoProbe == [ok |-> FALSE, present |-> FALSE, invalidated |-> FALSE]
\* a probe whose hit does not return
ProbeNextNoReturn(cached) == "similarity"
\* `if cached_result: return cached_result`, else on to the strategies
ProbeNext(cached) == IF Truthy(cached) THEN "returned" ELSE "similarity"
NoPrev == [valid |-> FALSE, query |-> <<>>, ret |-> <<>>, hit |-> FALSE,
           stored |-> FALSE]

\* ------------------------------------------------------ routing: values
\* words a response text is made of (a text is a sequence of words separated
\* by single spaces)
Words == {"Resume", "environmental", "justice", "Veterans", "visa"}
Texts == UNION {[1..n -> Words] : n \in 0..MaxTextLen}
\* str.lower() on one word
LowerWord(w) == CASE w = "Resume" -> "resume"
                  [] w = "Veterans" -> "veterans"
                  [] OTHER -> w
\* result["response"].lower()
Lower(text) == [i \in 1..Len(text) |-> LowerWord(text[i])]
\* kw occurs inside the (lower-case) word w
SubstringOf(kw, w) == kw = w \/ (kw = "veteran" /\ w = "veterans")
\* `kw in response_lower` for a keyword of one or more words
KeywordIn(kw, low) ==
    \E i \in 1..(Len(low) - Len(kw) + 1) :
        \A j \in 1..Len(kw) : SubstringOf(kw[j], low[i + j - 1])
CareerKeywords == {<<"career">>, <<"resume">>, <<"skills">>}
EjKeywords == {<<"environmental", "justice">>, <<"equity">>, <<"community">>}
VeteranKeywords == {<<"veteran">>, <<"military">>, <<"service">>}
InternationalKeywords == {<<"international">>, <<"visa">>, <<"credential">>}
\* any(kw in response_lower for kw in [...])
AnyKeyword(kws, low) == \E kw \in kws : KeywordIn(kw, low)

SpecialistNodes == {"liv", "jasmine", "marcus", "miguel"}

\* the four ifs with the last two exchanged
AppendMatchesSwapped(start, response) ==
    LET low == Lower(response)
        a == IF AnyKeyword(CareerKeywords, low) THEN Append(start, "liv") ELSE start
        b == IF AnyKeyword(EjKeywords, low) THEN Append(a, "jasmine") ELSE a
        c == IF AnyKeyword(InternationalKeywords, low) THEN Append(b, "miguel") ELSE b
        d == IF AnyKeyword(VeteranKeywords, low) THEN Append(c, "marcus") ELSE c
    IN d
\* the specialist list built from the response of the supervisor agent, in
\* the order the four ifs build it, appended to the list given
AppendMatches(start, response) ==
    LET low == Lower(response)
        a == IF AnyKeyword(CareerKeywords, low) THEN Append(start, "liv") ELSE start
        b == IF AnyKeyword(EjKeywords, low) THEN Append(a, "jasmine") ELSE a
        c == IF AnyKeyword(VeteranKeywords, low) THEN Append(b, "marcus") ELSE b
        d == IF AnyKeyword(InternationalKeywords, low) THEN Append(c, "miguel") ELSE c
    IN d
\* a list that is not reset: it starts from the one already in the state
RouteSpecialistsAccumulate(response) == AppendMatches(specialists_to_call, response)
\* specialists = [] followed by the four ifs
RouteSpecialists(response) == AppendMatches(<<>>, response)
ReasonOf(s) ==
    CASE s = "liv" -> "Career development expertise needed"
      [] s = "jasmine" -> "Environmental justice expertise needed"
      [] s = "marcus" -> "Veteran transition expertise needed"
      [] s = "miguel" -> "International professional expertise needed"
\* one reason for the whole list
RoutingReasonsFirstOnly(specialists) ==
    IF specialists = <<>> THEN <<>> ELSE <<ReasonOf(specialists[1])>>
\* routing_reasons, appended alongside specialists
RoutingReasons(specialists) ==
    [i \in 1..Len(specialists) |-> ReasonOf(specialists[i])]

\* what search_knowledge_base and get_ecosystem_partners hand to the node
KbReturns == {<<>>, <<NotAvailableRecord>>, <<Record(1, ScoreOf(1))>>}
PartnerReturns == {<<>>, <<"partner">>}
MessageLists == {<<>>, <<"m1">>, <<"m1", "m2">>}
\* execute_agent: a response text, or an exception
AgentOutcomes == {[raise |-> FALSE, response |-> t] : t \in Texts}
                 \cup {[raise |-> TRUE, response |-> <<>>]}
SpecialistOutcomes == {[raise |-> FALSE, response |-> <<"hello">>],
                       [raise |-> TRUE, response |-> <<>>]}

\* context = {"knowledge_base_results": kb_results} if kb_results else {};
\* context["ecosystem_partners"] = partners if partners (an absent key is <<>>)
BuildContext(kb_results, partners) ==
    [knowledge_base_results |-> kb_results, ecosystem_partners |-> partners]
EmptyContext == BuildContext(<<>>, <<>>)
NoResponse == [set |-> FALSE, text |-> <<>>]
Response(text) == [set |-> TRUE, text |-> text]
\* specialist_responses is a dict: its entries in insertion order
Entry(specialist, response) == [specialist |-> specialist, response |-> response]
NoResponses == <<>>
NoDecision == [set |-> FALSE, goto |-> "none", targets |-> <<>>, reasons |-> <<>>,
               text |-> <<>>]
NoObservation == [set |-> FALSE, text |-> <<>>, targets |-> <<>>,
                  messages |-> <<>>, context |-> EmptyContext]

NodesIdle ==
    /\ node = "idle"
    /\ messages = <<>>
    /\ specialists_to_call = <<>>
    /\ routing_reasons = <<>>
    /\ context = EmptyContext
    /\ final_response = NoResponse
    /\ error = "none"
    /\ specialist_responses = NoResponses
    /\ decision = NoDecision
    /\ steps = 0
    /\ turns = 0
    /\ executed = <<>>
RoutingIdle == NodesIdle /\ first = NoObservation

\* -------------------------------------------------------------------- Init
\* no request being authenticated, no state update in progress, no
\* concurrent caller
ServicesIdle ==
    /\ auth = AuthIdle
    /\ chat = ChatIdle
    /\ workers = NoWorkers
    /\ ManagersIdle

EnvInit ==
    /\ supabase_available \in BOOLEAN
    /\ DB_USER \in BOOLEAN
    /\ vector_store \in BOOLEAN
    /\ redis_available \in BOOLEAN
    \* vector_store is None whenever Supabase failed to initialise
    /\ (~supabase_available => ~vector_store)

CascadeInit ==
    /\ EnvInit
    /\ redis_data = [q \in Queries |-> NoEntry]
    /\ pc = "idle"
    /\ query = <<>>
    /\ results = <<>>
    /\ ret = <<>>
    /\ escaped = FALSE
    /\ calls = <<>>
    /\ origin = <<>>
    /\ failed = {}
    /\ db_rows = <<>>
    /\ cacheReads = 0
    /\ cacheWrites = 0
    /\ written = NoWrite
    /\ hit = FALSE
    /\ probed = NoProbe
    /\ prev = NoPrev
    /\ ncalls = 0
    /\ conditions = <<>>
    /\ main_keyword = "none"
    /\ deleted = {}

Init == CascadeInit /\ RoutingIdle /\ ServicesIdle

envVars == <<supabase_available, DB_USER, vector_store, redis_available>>

\* ------------------------------------------- search_knowledge_base, by stage
\* entry of search_knowledge_base(q): the availability guard before the try
StartCall(q) ==
    /\ pc \in {"idle", "returned"}
    /\ ncalls < MaxCalls
    /\ ncalls' = ncalls + 1
    /\ prev' = IF pc = "returned"
               THEN [valid |-> TRUE, query |-> query, ret |-> ret, hit |-> hit,
                     stored |-> written.done]
               ELSE prev
    /\ query' = q
    /\ results' = <<>>
    /\ calls' = <<>>
    /\ origin' = <<>>
    /\ failed' = {}
    /\ db_rows' = <<>>
    /\ conditions' = <<>>
    /\ main_keyword' = "none"
    /\ cacheReads' = 0
    /\ cacheWrites' = 0
    /\ written' = NoWrite
    /\ hit' = FALSE
    /\ probed' = NoProbe
    /\ escaped' = FALSE
    /\ IF ~supabase_available /\ ~DB_USER
       THEN /\ ret' = <<NotAvailableRecord>>
            /\ pc' = "returned"
       ELSE /\ ret' = <<>>
            /\ pc' = "probe"
    /\ UNCHANGED <<serviceVars, routingVars, envVars, redis_data, deleted>>

\* cache probe: a truthy cached value is returned at once
CacheProbe ==
    /\ pc = "probe"
    /\ IF redis_available
       THEN \E redisOk \in BOOLEAN :
              LET cached == get_from_cache(query, redisOk)
              IN /\ cacheReads' = cacheReads + 1
                 /\ probed' = [ok |-> redisOk, present |-> redis_data[query].present,
                               invalidated |-> query \in deleted]
                 /\ deleted' = deleted \ {query}
                 /\ pc' = ProbeNext(cached)
                 /\ hit' = Truthy(cached)
                 /\ ret' = IF Truthy(cached) THEN cached.val ELSE ret
       ELSE /\ pc' = "similarity"
            /\ UNCHANGED <<ret, hit, cacheReads, probed, deleted>>
    /\ UNCHANGED <<serviceVars, routingVars, envVars, redis_data, query, results, escaped,
                   calls, origin, failed, db_rows, conditions, main_keyword, cacheWrites, written,
                   prev, ncalls>>

\* what a stage that called its backend leaves behind
StageEffect(strategy, o, recs, exc, out) ==
    /\ results' = results \o recs
    /\ origin' = origin \o Tag(Len(recs), strategy)
    /\ calls' = Append(calls, strategy)
    /\ db_rows' = IF strategy = "direct" THEN direct_db_query(o) ELSE db_rows
    /\ conditions' = IF strategy = "direct" THEN Conditions(query) ELSE conditions
    /\ main_keyword' = IF strategy = "keyword" THEN MainKeyword(query)
                       ELSE main_keyword
    /\ failed' = IF exc # "none" \/ o.raise # "none"
                 THEN failed \cup {strategy} ELSE failed
    /\ pc' = out.pc
    /\ ret' = out.ret
    /\ escaped' = out.escaped

\* a stage whose backend is not called
StageSkipped(nextPc) ==
    /\ pc' = nextPc
    /\ UNCHANGED <<results, origin, calls, db_rows, conditions, main_keyword, failed, ret, escaped>>

\* a keyword fallback that runs whatever the result holds
AfterResultsAlwaysKeyword(res) == "keyword"
\* `if not results:` before the API keyword fallback
AfterResults(res) == IF res = <<>> THEN "keyword" ELSE "writeback"

\* similarity stage (vector_store.similarity_search_with_score)
SimilarityStage ==
    /\ pc = "similarity"
    /\ IF vector_store
       THEN \E o \in OutcomesOf("similarity") :
              LET recs == LoopRecords(o.data, Reported)
                  exc == StageExc(o, o.data)
                  \* `if not results:` guards every later stage
                  next == IF results \o recs = <<>> THEN "procedure" ELSE "writeback"
                  out == IF exc = "none" THEN Continue(next)
                         ELSE Propagate("ve", exc, next)
              IN StageEffect("similarity", o, recs, exc, out)
       ELSE StageSkipped("procedure")
    /\ UNCHANGED <<serviceVars, routingVars, envVars, redis_data, query, cacheReads, cacheWrites, written,
                   hit, probed, prev, ncalls, deleted>>

\* structured-procedure stage (embed_query + rpc match_documents); the two
\* fallbacks live in its exception handler
ProcedureStage ==
    /\ pc = "procedure"
    /\ \E o \in OutcomesOf("procedure") :
          LET recs == LoopRecords(o.data, Reported)
              exc == StageExc(o, o.data)
              out == IF exc = "none" THEN Continue("writeback")
                     ELSE Propagate("me", exc, "direct")
          IN StageEffect("procedure", o, recs, exc, out)
    /\ UNCHANGED <<serviceVars, routingVars, envVars, redis_data, query, cacheReads, cacheWrites, written,
                   hit, probed, prev, ncalls, deleted>>

\* direct-connection fallback (inside the procedure stage's handler)
DirectStage ==
    /\ pc = "direct"
    /\ IF Len(LowerSplit(query)) > 0 /\ Len(Conditions(query)) > 0
       THEN \E o \in Outcomes :
              LET db_results == direct_db_query(o)
                  recs == LoopRecords(db_results, Placeholder(DirectSimilarity))
                  exc == IF LoopRaises(db_results) THEN "AttributeError" ELSE "none"
                  next == AfterResults(results \o recs)
                  out == IF exc = "none" THEN Continue(next)
                         ELSE Propagate("dbe", exc, next)
              IN StageEffect("direct", o, recs, exc, out)
       ELSE StageSkipped(AfterResults(results))
    /\ UNCHANGED <<serviceVars, routingVars, envVars, redis_data, query, cacheReads, cacheWrites, written,
                   hit, probed, prev, ncalls, deleted>>

\* API keyword fallback (inside the procedure stage's handler)
KeywordStage ==
    /\ pc = "keyword"
    /\ IF Len(LowerSplit(query)) > 0
       THEN \E o \in OutcomesOf("keyword") :
              LET recs == LoopRecords(o.data, Placeholder(KeywordSimilarity))
                  exc == StageExc(o, o.data)
                  out == IF exc = "none" THEN Continue("writeback")
                         ELSE Propagate("ke", exc, "writeback")
              IN StageEffect("keyword", o, recs, exc, out)
       ELSE StageSkipped("writeback")
    /\ UNCHANGED <<serviceVars, routingVars, envVars, redis_data, query, cacheReads, cacheWrites, written,
                   hit, probed, prev, ncalls, deleted>>

\* a write-back whatever the result is
ShouldCacheAlways(res) == redis_available
\* if redis_available and results:
ShouldCache(res) == redis_available /\ res # <<>>

\* write-back of a non-empty result, then return results
WriteBack ==
    /\ pc = "writeback"
    /\ IF ShouldCache(results)
       THEN \E redisOk \in BOOLEAN :
              /\ redis_data' = set_in_cache(query, results, redisOk)
              /\ cacheWrites' = cacheWrites + 1
              /\ written' = [done |-> redisOk, value |-> results]
       ELSE UNCHANGED <<redis_data, cacheWrites, written>>
    /\ ret' = results
    /\ pc' = "returned"
    /\ UNCHANGED <<serviceVars, routingVars, envVars, query, results, escaped, calls,
                   origin, failed, db_rows, conditions, main_keyword, cacheReads, hit, probed, prev,
                   ncalls, deleted>>

\* Redis drops an entry whose TTL ran out
Expire(q) ==
    /\ redis_data[q].present
    /\ redis_data[q].ttl > 0
    /\ redis_data' = [redis_data EXCEPT ![q] = NoEntry]
    /\ UNCHANGED <<serviceVars, routingVars, envVars, pc, query, results, ret, escaped,
                   calls, origin, failed, db_rows, conditions, main_keyword, cacheReads, cacheWrites,
                   written, hit, probed, prev, ncalls, deleted>>

Next ==
    \/ \E q \in Queries : StartCall(q)
    \/ CacheProbe
    \/ SimilarityStage
    \/ ProcedureStage
    \/ DirectStage
    \/ KeywordStage
    \/ WriteBack
    \/ \E q \in Queries : Expire(q)

Spec == Init /\ [][Next]_vars

\* redis_client.delete of every key in place of the one key
DeleteAllKeys(key) == [q \in Queries |-> NoEntry]
\* redis_client.delete(cache_key): the store after the call
Delete(key) == [redis_data EXCEPT ![key] = NoEntry]

\* clear_cache_for_query(query), called between two searches as the cache
\* demo does; without a Redis client it does nothing, and deleting a key
\* that holds no entry changes nothing
clear_cache_for_query(q) ==
    /\ pc \in {"idle", "returned"}
    /\ redis_available
    /\ redis_data' = Delete(q)
    /\ deleted' = IF redis_data[q].present THEN deleted \cup {q} ELSE deleted
    /\ UNCHANGED <<serviceVars, routingVars, envVars, pc, query, results, ret, escaped,
                   calls, origin, failed, db_rows, conditions, main_keyword, cacheReads, cacheWrites,
                   written, hit, probed, prev, ncalls>>

\* searches, expiry and explicit invalidation
NextCache ==
    \/ Next
    \/ \E q \in Queries : clear_cache_for_query(q)

\* the configuration the cache demo runs in: Redis and the knowledge-base
\* backends are up (each call may still fail)
InitCache ==
    Init /\ redis_available /\ supabase_available /\ DB_USER /\ vector_store

SpecCache == InitCache /\ [][NextCache]_vars

\* ----------------------------------------------------------- routing nodes
\* the graph is invoked on a fresh state holding the turn's messages; the
\* entry point is the supervisor
NewTurn(msgs) ==
    /\ node \in {"idle", "END", "raised"}
    /\ turns < MaxTurns
    /\ turns' = turns + 1
    /\ steps' = 0
    /\ node' = "supervisor"
    /\ messages' = msgs
    /\ specialists_to_call' = <<>>
    /\ routing_reasons' = <<>>
    /\ context' = EmptyContext
    /\ final_response' = NoResponse
    /\ error' = "none"
    /\ specialist_responses' = NoResponses
    /\ decision' = NoDecision
    /\ executed' = <<>>
    /\ UNCHANGED <<serviceVars, cascadeVars, first>>

\* the Command supervisor_node returns for a response of the supervisor agent
GotoOfNeedsResults(specialists, kb_results) ==
    IF specialists = <<>> /\ kb_results # <<>> THEN "END" ELSE "human_feedback"
GotoOfAlwaysEnd(specialists, kb_results) == "END"
\* the three returns of supervisor_node after the classification
GotoOf(specialists, kb_results) ==
    IF specialists = <<>> /\ kb_results # <<>> THEN "END"
    ELSE IF specialists # <<>> THEN "human_feedback"
    ELSE "END"

SupervisorCommand(response, specialists, kb_results) ==
    [set |-> TRUE,
     goto |-> GotoOf(specialists, kb_results),
     targets |-> specialists,
     reasons |-> RoutingReasons(specialists),
     text |-> response]

\* one node execution counted against the bound on executions in a turn
Tick == steps < MaxSteps /\ steps' = steps + 1

\* a supervisor that skips the check for messages
NoMessagesNever(msgs) == FALSE
\* if not messages:
NoMessages(msgs) == msgs = <<>>

SupervisorRun(outcomes) ==
    /\ node = "supervisor"
    /\ IF NoMessages(messages)
       THEN /\ node' = "END"
            /\ error' = "No messages found"
            /\ UNCHANGED <<specialists_to_call, routing_reasons, context,
                           final_response, decision, executed>>
       ELSE \E result \in outcomes :
              IF result.raise
              THEN /\ node' = "raised"
                   /\ UNCHANGED <<specialists_to_call, routing_reasons, context,
                                  final_response, error, decision, executed>>
              ELSE \E specialists \in {RouteSpecialists(result.response)} :
                   \E kb_results \in KbReturns, partners \in PartnerReturns :
                      /\ decision' = SupervisorCommand(result.response, specialists,
                                                       kb_results)
                      /\ executed' = <<>>
                      /\ context' = BuildContext(kb_results, partners)
                      /\ node' = GotoOf(specialists, kb_results)
                      /\ IF GotoOf(specialists, kb_results) = "END"
                         THEN /\ final_response' = Response(result.response)
                              /\ UNCHANGED <<specialists_to_call, routing_reasons>>
                         ELSE /\ specialists_to_call' = specialists
                              /\ routing_reasons' = RoutingReasons(specialists)
                              /\ UNCHANGED final_response
                      /\ UNCHANGED error
    /\ UNCHANGED <<serviceVars, cascadeVars, messages, specialist_responses, first, turns>>

SupervisorStep(outcomes) == Tick /\ SupervisorRun(outcomes)
supervisor_node == SupervisorStep(AgentOutcomes)

\* feedback = {"approved": True}: the placeholder the node decides on
Feedback == [approved |-> TRUE]
\* the feedback values human_feedback_node receives from outside itself: it
\* calls no interrupt() and reads no field of the state to decide
ExternalFeedback == {}

HumanFeedbackRun ==
    /\ node = "human_feedback"
    /\ IF Feedback.approved
       THEN \* goto specialists[0]; an empty list raises IndexError
            node' = IF specialists_to_call = <<>> THEN "raised"
                    ELSE specialists_to_call[1]
       ELSE node' = "supervisor"
    /\ UNCHANGED <<serviceVars, cascadeVars, messages, specialists_to_call, routing_reasons,
                   context, final_response, error, specialist_responses,
                   decision, first, turns, executed>>

human_feedback_node == Tick /\ HumanFeedbackRun

\* liv_node, jasmine_node, marcus_node, miguel_node
SpecialistRun(s) ==
    /\ node = s
    /\ executed' = Append(executed, s)
    /\ \E result \in SpecialistOutcomes :
          IF result.raise
          THEN /\ node' = "raised"
               /\ UNCHANGED specialist_responses
          ELSE /\ node' = "supervisor"
               \* update = {"specialist_responses": {s: response}}
               /\ specialist_responses' = <<Entry(s, result.response)>>
    /\ UNCHANGED <<serviceVars, cascadeVars, messages, specialists_to_call, routing_reasons,
                   context, final_response, error, decision, first, turns>>

specialist_node(s) == Tick /\ SpecialistRun(s)

\* the cascade handles at rest while the routing nodes run
CascadeIdle ==
    /\ supabase_available = TRUE
    /\ DB_USER = TRUE
    /\ vector_store = TRUE
    /\ redis_available = TRUE
    /\ redis_data = [q \in Queries |-> NoEntry]
    /\ pc = "idle"
    /\ query = <<>>
    /\ results = <<>>
    /\ ret = <<>>
    /\ escaped = FALSE
    /\ calls = <<>>
    /\ origin = <<>>
    /\ failed = {}
    /\ db_rows = <<>>
    /\ cacheReads = 0
    /\ cacheWrites = 0
    /\ written = NoWrite
    /\ hit = FALSE
    /\ probed = NoProbe
    /\ prev = NoPrev
    /\ ncalls = 0
    /\ conditions = <<>>
    /\ main_keyword = "none"
    /\ deleted = {}

InitRouting == CascadeIdle /\ RoutingIdle /\ ServicesIdle

NextRouting ==
    \/ \E msgs \in MessageLists : NewTurn(msgs)
    \/ supervisor_node
    \/ human_feedback_node
    \/ \E s \in SpecialistNodes : specialist_node(s)

SpecRouting == InitRouting /\ [][NextRouting]_vars

\* the supervisor agent stubbed with one response text (first.text), as a
\* test that fixes the text does: execute_agent returns that text or raises
StubbedOutcomes == {o \in AgentOutcomes : o.raise \/ o.response = first.text}
Stubbed(text) == [NoObservation EXCEPT !.text = text]

InitObserved ==
    /\ CascadeIdle
    /\ ServicesIdle
    /\ NodesIdle
    /\ first \in {Stubbed(text) : text \in Texts}

\* keeps the Command one run of supervisor_node returned, with the messages
\* and context of that run, so that every later run can be compared with it
Observe ==
    /\ decision.set
    /\ ~first.set
    /\ first' = [set |-> TRUE, text |-> decision.text,
                 targets |-> decision.targets,
                 messages |-> messages, context |-> context]
    /\ UNCHANGED <<serviceVars, cascadeVars, node, messages, specialists_to_call,
                   routing_reasons, context, final_response, error,
                   specialist_responses, decision, steps, turns, executed>>

NextObserved ==
    \/ \E msgs \in MessageLists : NewTurn(msgs)
    \/ SupervisorStep(StubbedOutcomes)
    \/ human_feedback_node
    \/ \E s \in SpecialistNodes : specialist_node(s)
    \/ Observe

SpecObserved == InitObserved /\ [][NextObserved]_vars

\* ------------------------------------------------------ integrate_responses
\* specialist.capitalize() + "'s Analysis:"
Heading(specialist) ==
    CASE specialist = "liv" -> "Liv's Analysis:"
      [] specialist = "jasmine" -> "Jasmine's Analysis:"
      [] specialist = "marcus" -> "Marcus's Analysis:"
      [] specialist = "miguel" -> "Miguel's Analysis:"
CompositeHeader == "Integrated insights from specialists:"
NoSpecialistResponses == "No specialist responses to integrate"

\* the loop over specialist_responses.items(): a heading and the response of
\* each entry, in the order the dict holds them
RECURSIVE Sections(_)
Sections(responses) ==
    IF responses = <<>> THEN <<>>
    ELSE <<Heading(Head(responses).specialist)>> \o Head(responses).response
             \o Sections(Tail(responses))
Composite(responses) == <<CompositeHeader>> \o Sections(responses)

IntegrateCommandEndsTurn(responses) ==
    IF responses = <<>>
    THEN [goto |-> "END", key |-> "final_response", value |-> <<CompositeHeader>>]
    ELSE [goto |-> "supervisor", key |-> "final_response",
          value |-> Composite(responses)]
\* the Command integrate_responses_node returns: where it goes and the one
\* key it updates
IntegrateCommand(responses) ==
    IF responses = <<>>
    THEN [goto |-> "supervisor", key |-> "error", value |-> NoSpecialistResponses]
    ELSE [goto |-> "supervisor", key |-> "final_response",
          value |-> Composite(responses)]

IntegrateRun ==
    /\ node = "integrate"
    /\ \E command \in {IntegrateCommand(specialist_responses)} :
          /\ node' = command.goto
          /\ IF command.key = "error"
             THEN error' = command.value /\ UNCHANGED final_response
             ELSE final_response' = Response(command.value) /\ UNCHANGED error
    /\ UNCHANGED <<serviceVars, cascadeVars, messages, specialists_to_call, routing_reasons,
                   context, specialist_responses, decision, first, turns,
                   executed>>

integrate_responses_node == Tick /\ IntegrateRun

\* dicts of specialist responses a state can hold when integrate is entered:
\* up to MaxResponses entries, distinct keys, any insertion order
ResponseDicts ==
    {d \in UNION {[1..n -> {Entry(s, <<"hello">>) : s \in SpecialistNodes}] :
                     n \in 0..MaxResponses} :
        \A i, j \in 1..Len(d) : i # j => d[i].specialist # d[j].specialist}

\* the graph entered at integrate (an edge of the graph leads there from
\* every specialist and from the supervisor) with a state holding some
\* specialist responses
InitIntegrate ==
    /\ CascadeIdle
    /\ ServicesIdle
    /\ node = "integrate"
    /\ messages \in MessageLists
    /\ specialists_to_call = <<>>
    /\ routing_reasons = <<>>
    /\ context = EmptyContext
    /\ final_response = NoResponse
    /\ error = "none"
    /\ specialist_responses \in ResponseDicts
    /\ decision = NoDecision
    /\ first = NoObservation
    /\ steps = 0
    /\ turns = 1
    /\ executed = <<>>

\* integrate and the supervisor it returns to
NextIntegrate ==
    \/ integrate_responses_node
    \/ supervisor_node

SpecIntegrate == InitIntegrate /\ [][NextIntegrate]_vars

\* ------------------------------------------- the graph run without a bound
\* a node of the graph runs; nothing in the graph or the nodes counts the
\* executions
RunNode ==
    /\ \/ SupervisorRun(AgentOutcomes)
       \/ HumanFeedbackRun
       \/ \E s \in SpecialistNodes : SpecialistRun(s)
    /\ UNCHANGED steps

NextRun ==
    \/ \E msgs \in MessageLists : NewTurn(msgs)
    \/ RunNode

\* the runtime keeps running the node a Command names
SpecRun == InitRouting /\ [][NextRun]_vars /\ WF_vars(RunNode)

\* ------------------------------- concurrent calls of search_knowledge_base
\* Each caller runs the function on its own locals; the Redis store is the
\* only state they share, and each Redis command is one atomic step.
Workers == 1..MaxWorkers
\* what the strategies of one call leave in `results`
ResultLists == {<<>>, <<Record(1, ScoreOf(1))>>, <<Record(2, ScoreOf(2))>>}
WorkerIdle == [pc |-> "idle", query |-> <<>>, results |-> <<>>, ret |-> <<>>,
               wrote |-> FALSE]

callVars == <<pc, query, results, ret, escaped, calls, origin, failed, db_rows,
              cacheReads, cacheWrites, written, hit, probed, prev, ncalls,
              conditions, main_keyword, deleted>>

InitConcurrent ==
    /\ CascadeIdle
    /\ RoutingIdle
    /\ auth = AuthIdle
    /\ chat = ChatIdle
    /\ workers = [w \in Workers |-> WorkerIdle]
    /\ ManagersIdle

\* entry: the availability guard passes (both backends are up)
WorkerStart(w, q) ==
    /\ workers[w].pc = "idle"
    /\ workers' = [workers EXCEPT ![w].pc = "probe", ![w].query = q]
    /\ UNCHANGED <<routingVars, envVars, redis_data, callVars, auth, chat, managerVars>>

\* cached_result = get_from_cache(cache_key); if cached_result: return it
WorkerProbe(w) ==
    /\ workers[w].pc = "probe"
    /\ \E redisOk \in BOOLEAN :
          LET cached == get_from_cache(workers[w].query, redisOk)
          IN workers' = IF Truthy(cached)
                        THEN [workers EXCEPT ![w].pc = "done", ![w].ret = cached.val]
                        ELSE [workers EXCEPT ![w].pc = "lookup"]
    /\ UNCHANGED <<routingVars, envVars, redis_data, callVars, auth, chat, managerVars>>

\* the strategies: they fill `results` and never touch the cache; an
\* exception that reaches the outer handler returns the error record
WorkerLookup(w) ==
    /\ workers[w].pc = "lookup"
    /\ \/ \E res \in ResultLists :
             workers' = [workers EXCEPT ![w].pc = "writeback", ![w].results = res]
       \/ workers' = [workers EXCEPT ![w].pc = "done",
                                     ![w].ret = <<SearchFailedRecord>>]
    /\ UNCHANGED <<routingVars, envVars, redis_data, callVars, auth, chat, managerVars>>

\* if redis_available and results: set_in_cache(cache_key, results)
WorkerWriteBack(w) ==
    /\ workers[w].pc = "writeback"
    /\ IF redis_available /\ workers[w].results # <<>>
       THEN \E redisOk \in BOOLEAN :
              /\ redis_data' = set_in_cache(workers[w].query, workers[w].results,
                                            redisOk)
              /\ workers' = [workers EXCEPT ![w].pc = "done",
                                            ![w].ret = workers[w].results,
                                            ![w].wrote = redisOk]
       ELSE /\ workers' = [workers EXCEPT ![w].pc = "done",
                                          ![w].ret = workers[w].results]
            /\ UNCHANGED redis_data
    /\ UNCHANGED <<routingVars, envVars, callVars, auth, chat, managerVars>>

NextConcurrent ==
    \/ \E w \in Workers, q \in Queries : WorkerStart(w, q)
    \/ \E w \in Workers : WorkerProbe(w)
    \/ \E w \in Workers : WorkerLookup(w)
    \/ \E w \in Workers : WorkerWriteBack(w)
    \/ \E q \in Queries : Expire(q)

SpecConcurrent == InitConcurrent /\ [][NextConcurrent]_vars

\* --------------------------------------------------------- get_current_user
\* the authorization value: None, or the header split at spaces ("" has no
\* part, "Bearer" one, "Bearer t1" two)
Authorizations == {None, Some(<<>>), Some(<<"Bearer">>), Some(<<"Bearer", "t1">>),
                   Some(<<"Bearer", "t2">>), Some(<<"bearer", "t1">>),
                   Some(<<"Token", "t1">>)}
\* jwt.decode(token, ...): the payload, or an InvalidTokenError (bad
\* signature or audience) or its subclass ExpiredSignatureError
Roles == {"absent", "authenticated", "admin"}
DecodeOutcomes == {[raise |-> "none", role |-> r] : r \in Roles}
                  \cup {[raise |-> e, role |-> "absent"] :
                          e \in {"InvalidTokenError", "ExpiredSignatureError"}}
\* client.get(.../auth/v1/user): a response, or an exception; httpx raises
\* its own httpx.ConnectError / httpx.ConnectTimeout / httpx.ReadTimeout
\* (subclasses of httpx.HTTPError), the socket layer below it the builtin
\* ConnectionError
StatusOk == 200
Statuses == {StatusOk, 401, 403, 500}
ProviderOutcomes ==
    {[raise |-> "none", status |-> StatusOk, id |-> "u1", full_name |-> n] :
        n \in {"absent", "Ann"}}
    \cup {[raise |-> "none", status |-> st, id |-> "none", full_name |-> "absent"] :
            st \in Statuses \ {StatusOk}}
    \cup {[raise |-> e, status |-> 0, id |-> "none", full_name |-> "absent"] :
            e \in {"httpx.ConnectError", "httpx.ConnectTimeout",
                   "httpx.ReadTimeout", "ConnectionError"}}

\* except (IndexError, InvalidTokenError, ConnectionError)
AuthCatches(exc) ==
    exc \in {"IndexError", "InvalidTokenError", "ExpiredSignatureError",
             "ConnectionError"}

\* AUTH_EXCEPTION, an exception that escapes, and the returned pair
Unauthorized == 401
AuthException == [kind |-> "http", status |-> Unauthorized]
Escaped(exc) == [kind |-> "raised", exc |-> exc]
\* what the try block's exception exc becomes
AuthHandler(exc) == IF AuthCatches(exc) THEN AuthException ELSE Escaped(exc)
\* scopes = [payload.get("role", "authenticated")] and the user dict
Authenticated(payload, user_data) ==
    [kind |-> "return",
     scopes |-> <<IF payload.role = "absent" THEN "authenticated" ELSE payload.role>>,
     identity |-> user_data.id,
     display_name |-> IF user_data.full_name = "absent" THEN "None"
                      ELSE user_data.full_name,
     is_authenticated |-> TRUE]

NoPayload == [raise |-> "none", role |-> "absent"]
NoProviderResponse == [raise |-> "none", status |-> 0, id |-> "none",
                       full_name |-> "absent"]
AuthDone(authorization, payload, response, result) ==
    [pc |-> "done", authorization |-> authorization, payload |-> payload,
     response |-> response, result |-> result]

\* if not authorization: raise AUTH_EXCEPTION
AuthRequest(authorization) ==
    /\ auth.pc = "idle"
    /\ auth' = IF ~Truthy(authorization)
               THEN AuthDone(authorization, NoPayload, NoProviderResponse,
                             AuthException)
               ELSE [pc |-> "decode", authorization |-> authorization]
    /\ UNCHANGED <<cascadeVars, routingVars, chat, workers, managerVars>>

\* token = authorization.split(" ", 1)[1]; payload = jwt.decode(token, ...)
AuthDecode ==
    /\ auth.pc = "decode"
    /\ IF Len(auth.authorization.val) < 2
       THEN auth' = AuthDone(auth.authorization, NoPayload, NoProviderResponse,
                             AuthHandler("IndexError"))
       ELSE \E payload \in DecodeOutcomes :
              auth' = IF payload.raise # "none"
                      THEN AuthDone(auth.authorization, payload, NoProviderResponse,
                                    AuthHandler(payload.raise))
                      ELSE [pc |-> "fetch", authorization |-> auth.authorization,
                            payload |-> payload]
    /\ UNCHANGED <<cascadeVars, routingVars, chat, workers, managerVars>>

\* the GET to the identity provider, the status check and the return
AuthFetch ==
    /\ auth.pc = "fetch"
    /\ \E response \in ProviderOutcomes :
          auth' = AuthDone(auth.authorization, auth.payload, response,
                           IF response.raise # "none" THEN AuthHandler(response.raise)
                           ELSE IF response.status # StatusOk THEN AuthException
                           ELSE Authenticated(auth.payload, response))
    /\ UNCHANGED <<cascadeVars, routingVars, chat, workers, managerVars>>

InitAuth == CascadeIdle /\ RoutingIdle /\ ServicesIdle

NextAuth ==
    \/ \E authorization \in Authorizations : AuthRequest(authorization)
    \/ AuthDecode
    \/ AuthFetch

SpecAuth == InitAuth /\ [][NextAuth]_vars

\* ------------------------------------- update_state / add_message_to_state
\* HumanMessage(content=...) if role == "human" else AIMessage(content=...)
Message(content, role) ==
    [type |-> IF role = "human" THEN "human" ELSE "ai", content |-> content]
Contents == {"hi", "ok"}
ChatRoles == {"human", "ai"}
Messages == {Message(c, r) : c \in {"hi"}, r \in ChatRoles}
RECURSIVE MessageSeqs(_)
MessageSeqs(n) ==
    IF n = 0 THEN {<<>>}
    ELSE MessageSeqs(n - 1)
         \cup {Append(ms, m) : ms \in MessageSeqs(n - 1), m \in Messages}

\* the state object: its class and the fields the two functions can set
\* variant_fields stands for the fields a subclass adds to GraphState
StateKinds == {"GraphState", "CareerState", "EjState", "VeteranState",
               "InternationalState", "ClimateState"}
GraphStates ==
    {s \in [kind : StateKinds, messages : MessageSeqs(MaxMessages),
            graph_state : {"initial", "analyzing"}, final_response : {"None"},
            variant_fields : {"None", "set"}] :
        s.kind = "GraphState" => s.variant_fields = "None"}

\* the `updates` dict of update_state and the **kwargs of add_message_to_state
NoUpdates == <<>>
Updates == {NoUpdates, [graph_state |-> "done"], [final_response |-> "bye"],
            [messages |-> <<>>], [messages |-> <<Message("ok", "ai")>>]}

\* state_data = current_state.dict(); state_data.update(updates)
StateData(current_state, updates) ==
    [f \in DOMAIN current_state |->
        IF f \in DOMAIN updates THEN updates[f] ELSE current_state[f]]

\* the isinstance chain of update_state: the class whose validator is called
ValidatorOf(kind) ==
    IF kind \in {"EjState", "VeteranState", "InternationalState"} THEN kind
    ELSE "GraphState"

\* validate_graph_state / validate_ej_state / ...: builds a state of the
\* validator's class from state_data (a GraphState has none of the fields a
\* subclass adds), or raises a validation error
Validated(state_data, cls, ok) ==
    IF ok
    THEN [raise |-> FALSE,
          state |-> [state_data EXCEPT
                        !.kind = cls,
                        !.variant_fields = IF cls = "GraphState" THEN "None" ELSE @]]
    ELSE [raise |-> TRUE, state |-> <<>>]

\* an update that writes into the input object itself
update_state_in_place(current_state, updates, ok) ==
    [input |-> StateData(current_state, updates),
     result |-> Validated(StateData(current_state, updates),
                          ValidatorOf(current_state.kind), ok)]
\* update_state(current_state, updates): the input object after the call
\* (.dict() builds a new dict, the update goes into it) and the result
update_state(current_state, updates, ok) ==
    [input |-> current_state,
     result |-> Validated(StateData(current_state, updates),
                          ValidatorOf(current_state.kind), ok)]

\* {"messages": messages, **kwargs}: a key of kwargs replaces an earlier one
MessagesUpdate(msgs, kwargs) ==
    [f \in {"messages"} \cup DOMAIN kwargs |->
        IF f \in DOMAIN kwargs THEN kwargs[f] ELSE msgs]
\* add_message_to_state(state, content, role, **kwargs)
add_message_to_state(state, content, role, kwargs, ok) ==
    LET msgs == state.messages \o <<Message(content, role)>>
    IN update_state(state, MessagesUpdate(msgs, kwargs), ok)

ChatDone(op, before, content, role, updates, call) ==
    [pc |-> "done", op |-> op, before |-> before, content |-> content,
     role |-> role, kwargs |-> updates, input |-> call.input,
     raised |-> call.result.raise, returned |-> call.result.state]

UpdateState ==
    /\ chat.pc = "idle"
    /\ \E state \in GraphStates, updates \in Updates, ok \in BOOLEAN :
          chat' = ChatDone("update_state", state, "none", "none", updates,
                           update_state(state, updates, ok))
    /\ UNCHANGED <<cascadeVars, routingVars, auth, workers, managerVars>>

AddMessage ==
    /\ chat.pc = "idle"
    /\ \E state \in GraphStates, content \in Contents, role \in ChatRoles,
          kwargs \in Updates, ok \in BOOLEAN :
          chat' = ChatDone("add_message_to_state", state, content, role, kwargs,
                           add_message_to_state(state, content, role, kwargs, ok))
    /\ UNCHANGED <<cascadeVars, routingVars, auth, workers, managerVars>>

InitChat == CascadeIdle /\ RoutingIdle /\ ServicesIdle

NextChat == UpdateState \/ AddMessage

SpecChat == InitChat /\ [][NextChat]_vars

\* ------------------------------------------ SessionManager and ChatManager
\* Callers share one Redis; each Redis command is one atomic step, and the
\* steps of different callers interleave. Session and chat ids are uuids,
\* so an id is created once; the TTLs (7 and 30 days) do not run out here.
Procs == 1..MaxProcs
SessionIds == {"s1", "s2"}
ProcIdle == [pc |-> "idle", op |-> "none", caller |-> "none", sid |-> "none",
             ids |-> {}, listed |-> {}, result |-> "none", count |-> 0,
             ops |-> 0]
\* the state after create_session returned for every id, all of one user
SessionStore ==
    [session |-> [sid \in SessionIds |-> TRUE], index |-> SessionIds,
     meta |-> <<>>, list |-> <<>>]

ManagerFrame == UNCHANGED <<cascadeVars, routingVars, auth, chat, workers>>

\* a method returns to its caller: the loop of get_user_sessions, or the
\* client of the manager
Return(p, value) ==
    [procs EXCEPT ![p].pc = "idle", ![p].result = value, ![p].ops = @ + 1]

Call(p, op, sid) ==
    /\ procs[p].pc = "idle"
    /\ procs[p].ops < MaxOps
    /\ procs' = [procs EXCEPT ![p].pc = op, ![p].op = op, ![p].sid = sid,
                              ![p].caller = "none", ![p].result = "none",
                              ![p].listed = {}]
    /\ UNCHANGED <<store, invalidated>>
    /\ ManagerFrame

\* get_session: session_data = self.redis.get(session_key); None if absent
GetSessionRead(p) ==
    /\ procs[p].pc = "get_session"
    /\ procs' = IF store.session[procs[p].sid]
                THEN [procs EXCEPT ![p].pc = "get_session_setex"]
                ELSE IF procs[p].caller = "get_user_sessions"
                THEN [procs EXCEPT ![p].pc = "get_user_sessions_loop"]
                ELSE Return(p, "None")
    /\ UNCHANGED <<store, invalidated>>
    /\ ManagerFrame

\* get_session: self.redis.setex(session_key, SESSION_TTL, ...); return data
GetSessionWrite(p) ==
    /\ procs[p].pc = "get_session_setex"
    /\ store' = [store EXCEPT !.session[procs[p].sid] = TRUE]
    /\ procs' = IF procs[p].caller = "get_user_sessions"
                THEN [procs EXCEPT ![p].pc = "get_user_sessions_loop",
                                   ![p].listed = @ \cup {procs[p].sid}]
                ELSE Return(p, "data")
    /\ UNCHANGED invalidated
    /\ ManagerFrame

\* invalidate_session: session_data = self.redis.get(session_key)
InvalidateRead(p) ==
    /\ procs[p].pc = "invalidate_session"
    /\ procs' = IF store.session[procs[p].sid]
                THEN [procs EXCEPT ![p].pc = "invalidate_session_srem"]
                ELSE Return(p, "False")
    /\ UNCHANGED <<store, invalidated>>
    /\ ManagerFrame

\* invalidate_session: self.redis.srem(user_sessions_key, session_id)
InvalidateSrem(p) ==
    /\ procs[p].pc = "invalidate_session_srem"
    /\ store' = [store EXCEPT !.index = @ \ {procs[p].sid}]
    /\ procs' = [procs EXCEPT ![p].pc = "invalidate_session_delete"]
    /\ UNCHANGED invalidated
    /\ ManagerFrame

\* invalidate_session: self.redis.delete(session_key); return True
InvalidateDelete(p) ==
    /\ procs[p].pc = "invalidate_session_delete"
    /\ store' = [store EXCEPT !.session[procs[p].sid] = FALSE]
    /\ procs' = Return(p, "True")
    /\ invalidated' = invalidated \cup {procs[p].sid}
    /\ ManagerFrame

\* get_user_sessions: session_ids = self.redis.smembers(user_sessions_key)
UserSessionsMembers(p) ==
    /\ procs[p].pc = "get_user_sessions"
    /\ procs' = [procs EXCEPT ![p].pc = "get_user_sessions_loop",
                              ![p].ids = store.index]
    /\ UNCHANGED <<store, invalidated>>
    /\ ManagerFrame

\* get_user_sessions: for session_id in session_ids: self.get_session(...);
\* return sessions after the last one
UserSessionsLoop(p) ==
    /\ procs[p].pc = "get_user_sessions_loop"
    /\ IF procs[p].ids = {}
       THEN procs' = Return(p, "sessions")
       ELSE \E sid \in procs[p].ids :
               procs' = [procs EXCEPT ![p].pc = "get_session",
                                      ![p].caller = "get_user_sessions",
                                      ![p].sid = sid,
                                      ![p].ids = @ \ {sid}]
    /\ UNCHANGED <<store, invalidated>>
    /\ ManagerFrame

InitSessions ==
    /\ CascadeIdle
    /\ RoutingIdle
    /\ auth = AuthIdle /\ chat = ChatIdle /\ workers = NoWorkers
    /\ store = SessionStore
    /\ procs = [p \in Procs |-> ProcIdle]
    /\ invalidated = {}

NextSessions ==
    \/ \E p \in Procs, sid \in SessionIds : Call(p, "get_session", sid)
    \/ \E p \in Procs, sid \in SessionIds : Call(p, "invalidate_session", sid)
    \/ \E p \in Procs : Call(p, "get_user_sessions", "none")
    \/ \E p \in Procs : GetSessionRead(p)
    \/ \E p \in Procs : GetSessionWrite(p)
    \/ \E p \in Procs : InvalidateRead(p)
    \/ \E p \in Procs : InvalidateSrem(p)
    \/ \E p \in Procs : InvalidateDelete(p)
    \/ \E p \in Procs : UserSessionsMembers(p)
    \/ \E p \in Procs : UserSessionsLoop(p)

SpecSessions == InitSessions /\ [][NextSessions]_vars

\* the chat key after create_chat returned (message_count 0), or no chat
ChatMeta(count) == [present |-> TRUE, message_count |-> count]
NoChat == [present |-> FALSE, message_count |-> 0]
ChatStore(meta) ==
    [session |-> <<>>, index |-> {}, meta |-> meta, list |-> <<>>]

\* add_message: chat_metadata_json = self.redis.get(chat_key); False if absent
AddMessageRead(p) ==
    /\ procs[p].pc = "add_message"
    /\ procs' = IF store.meta.present
                THEN [procs EXCEPT ![p].pc = "add_message_rpush",
                                   ![p].count = store.meta.message_count]
                ELSE Return(p, "False")
    /\ UNCHANGED <<store, invalidated>>
    /\ ManagerFrame

\* add_message: self.redis.rpush(message_key, json.dumps(message))
AddMessagePush(p) ==
    /\ procs[p].pc = "add_message_rpush"
    /\ store' = [store EXCEPT !.list = Append(@, <<p, procs[p].ops>>)]
    /\ procs' = [procs EXCEPT ![p].pc = "add_message_setex"]
    /\ UNCHANGED invalidated
    /\ ManagerFrame

\* add_message: message_count = the count read + 1, written with setex
AddMessageSetex(p) ==
    /\ procs[p].pc = "add_message_setex"
    /\ store' = [store EXCEPT !.meta = ChatMeta(procs[p].count + 1)]
    /\ procs' = [procs EXCEPT ![p].pc = "add_message_expire"]
    /\ UNCHANGED invalidated
    /\ ManagerFrame

\* add_message: self.redis.expire(message_key, ...); return message_id
AddMessageExpire(p) ==
    /\ procs[p].pc = "add_message_expire"
    /\ procs' = Return(p, "message_id")
    /\ UNCHANGED <<store, invalidated>>
    /\ ManagerFrame

InitChats ==
    /\ CascadeIdle
    /\ RoutingIdle
    /\ auth = AuthIdle /\ chat = ChatIdle /\ workers = NoWorkers
    /\ store \in {ChatStore(ChatMeta(0)), ChatStore(NoChat)}
    /\ procs = [p \in Procs |-> ProcIdle]
    /\ invalidated = {}

NextChats ==
    \/ \E p \in Procs : Call(p, "add_message", "none")
    \/ \E p \in Procs : AddMessageRead(p)
    \/ \E p \in Procs : AddMessagePush(p)
    \/ \E p \in Procs : AddMessageSetex(p)
    \/ \E p \in Procs : AddMessageExpire(p)

SpecChats == InitChats /\ [][NextChats]_vars

\* ------------------------------------------------------------ claim helpers
IsRecordList(r) == \A i \in 1..Len(r) : DOMAIN r[i] = {"id", "similarity"}
IsErrorList(r) == Len(r) = 1 /\ DOMAIN r[1] = {"error"}

\* whether the code can reach a strategy's backend call at all for this
\* configuration and query
Applicable(s) ==
    CASE s = "similarity" -> vector_store
      [] s = "procedure" -> TRUE
      [] s = "direct" -> Len(Conditions(query)) > 0
      [] s = "keyword" -> Len(LowerSplit(query)) > 0
ApplicableStrategies == SelectSeq(Strategies, Applicable)
HasNext(i) == \E j \in (i + 1)..Len(Strategies) : Applicable(Strategies[j])
NextOf(i) ==
    CHOOSE j \in (i + 1)..Len(Strategies) :
        /\ Applicable(Strategies[j])
        /\ \A k \in (i + 1)..(j - 1) : ~Applicable(Strategies[k])
MissReturned == pc = "returned" /\ ~hit /\ ~IsErrorList(ret)

\* C1: search_knowledge_base never raises: whatever the cache and the four
\* backends do, the call ends by returning a list of records, an empty list
\* or a single synthetic error record; no exception reaches the caller.
C1_NeverRaises ==
    /\ ~escaped
    /\ pc # "raised"
    /\ pc = "returned" => (IsRecordList(ret) \/ IsErrorList(ret))
\* every strategy was invoked and failed, and the call still returned
C1_Witness ==
    /\ pc = "returned"
    /\ calls = Strategies
    /\ failed = StrategySet
    /\ ret = <<>>

\* C2: a cache hit short-circuits the cascade: the call returns at the probe,
\* no strategy is invoked in it, and what it returns is the stored value.
C2_CacheHitShortCircuits ==
    /\ [](hit => (pc = "returned" /\ calls = <<>> /\ origin = <<>>))
    /\ [][(hit' /\ ~hit) =>
            /\ redis_data[query].present
            /\ ret' = JsonLoads(redis_data[query].data)]_vars
C2_Witness == hit /\ pc = "returned" /\ Len(ret) > 0

\* C3 (as claimed): a call that returned a non-empty result is followed, for
\* the identical query, by a call that returns the identical result from the
\* cache.
SameQueryAgain ==
    /\ pc = "returned"
    /\ prev.valid
    /\ prev.query = query
    /\ prev.ret # <<>>
    /\ IsRecordList(prev.ret)
C4_EmptyOnlyAfterAllStrategies ==
    (MissReturned /\ ret = <<>>) => calls = ApplicableStrategies

\* C5: whenever a strategy fails, the next strategy in the order is attempted,
\* at whatever point inside the strategy the failure occurs.
C5_FailureProceedsToNext ==
    MissReturned =>
        \A i \in 1..(Len(Strategies) - 1) :
            (Strategies[i] \in failed /\ HasNext(i))
                => \E k \in 1..Len(calls) : calls[k] = Strategies[NextOf(i)]

\* C6: the returned records come from exactly one strategy, and never from a
\* strategy that failed part-way.
C6_SingleStrategyResult ==
    MissReturned =>
        /\ \A i, j \in 1..Len(origin) : origin[i] = origin[j]
        /\ \A i \in 1..Len(origin) : origin[i] \notin failed

\* C7 (as claimed): a non-empty result obtained from a strategy is in the
\* cache, under the query's key with the TTL, when the call returns.
C7_WriteBackAlways ==
    [][(pc = "writeback" /\ pc' = "returned" /\ results # <<>>)
        => redis_data'[query] = Setex(CacheTtl, JsonDumps(ret'))]_vars
\* C7 (amended): when Redis is available, returning a non-empty strategy
\* result is preceded by one set_in_cache of exactly that result under the
\* query's key with the TTL, which takes effect unless the Redis operation
\* fails; otherwise the store is left as it is; a call served from the cache
\* writes nothing.
C7_WriteBackWhenRedisUp ==
    /\ [](hit => cacheWrites = 0)
    /\ [][(pc = "writeback" /\ pc' = "returned") =>
            /\ ret' = results
            /\ IF results # <<>> /\ redis_available
               THEN /\ cacheWrites' = cacheWrites + 1
                    /\ written'.value = ret'
                    /\ IF written'.done
                       THEN redis_data' = [redis_data EXCEPT ![query] =
                                              Setex(CacheTtl, JsonDumps(ret'))]
                       ELSE redis_data' = redis_data
               ELSE /\ cacheWrites' = cacheWrites
                    /\ redis_data' = redis_data]_vars
C7_Witness ==
    /\ MissReturned
    /\ Len(ret) = MaxRows
    /\ written.done
    /\ cacheWrites = 1
    /\ redis_data[query] = Setex(CacheTtl, JsonDumps(ret))

\* C8: when similarity and procedure both fail and the direct-connection
\* fallback returns n >= 1 rows, the call returns exactly those n records with
\* similarity 0.75, does not invoke the keyword strategy, and writes the cache
\* (one set_in_cache, Redis being available).
DirectRecords == [i \in 1..Len(db_rows) |-> Record(db_rows[i], DirectSimilarity)]
C8_DirectFallbackScenario ==
    (/\ MissReturned
     /\ {"similarity", "procedure"} \subseteq failed
     /\ "direct" \notin failed
     /\ Len(db_rows) >= 1)
    => /\ ret = DirectRecords
       /\ \A k \in 1..Len(calls) : calls[k] # "keyword"
       /\ redis_available => cacheWrites = 1

\* C9: routing determinism: the specialists supervisor_node chooses are a
\* function of the response text alone: a run that sees the same text as the
\* observed run chooses the same specialists in the same order, whatever its
\* messages, knowledge-base results, partners and prior state.
C9_RoutingDeterminism ==
    (first.set /\ decision.set /\ decision.text = first.text)
        => decision.targets = first.targets
\* a second run on the text of the observed run, with other messages,
\* grounding, partners and a state left by an earlier specialist round
C9_Witness ==
    /\ first.set
    /\ decision.set
    /\ decision.text = first.text
    /\ Len(decision.targets) = 2
    /\ decision.targets = first.targets
    /\ turns = 2
    /\ steps > 1
    /\ messages = <<"m1", "m2">>
    /\ first.messages # messages
    /\ first.context # context
    /\ context.knowledge_base_results # <<>>
    /\ context.ecosystem_partners # <<>>
    /\ specialist_responses # NoResponses

\* C10: the target specialists are all matched specialists in the priority
\* order liv, jasmine, marcus, miguel, wherever the keywords stand in the
\* text; a text with a veteran keyword and a visa keyword (and no other)
\* yields [marcus, miguel].
Priority == <<"liv", "jasmine", "marcus", "miguel">>
KeywordsOf(s) ==
    CASE s = "liv" -> CareerKeywords
      [] s = "jasmine" -> EjKeywords
      [] s = "marcus" -> VeteranKeywords
      [] s = "miguel" -> InternationalKeywords
MatchesCategory(s, text) == AnyKeyword(KeywordsOf(s), Lower(text))
Mentions(text, word) == \E i \in 1..Len(text) : text[i] = word
C10_PriorityOrder ==
    decision.set =>
        /\ decision.targets =
              SelectSeq(Priority, LAMBDA s : MatchesCategory(s, decision.text))
        /\ (/\ Mentions(decision.text, "Veterans")
            /\ Mentions(decision.text, "visa")
            /\ ~MatchesCategory("liv", decision.text)
            /\ ~MatchesCategory("jasmine", decision.text))
           => decision.targets = <<"marcus", "miguel">>
\* the visa keyword stands before the veteran keyword in the text
C10_Witness ==
    /\ decision.set
    /\ decision.text = <<"visa", "Veterans">>
    /\ decision.targets = <<"marcus", "miguel">>
    /\ node = "human_feedback"
    /\ specialists_to_call = <<"marcus", "miguel">>

\* a step in which supervisor_node ran on a message and returned a Command
SupervisorReturned ==
    /\ node = "supervisor"
    /\ steps' # steps
    /\ messages # <<>>
    /\ node' # "raised"

\* C11: when the supervisor response matches no specialist category, the
\* node goes to END with final_response equal to the supervisor's own
\* response, whether or not the knowledge base returned anything; neither the
\* feedback node nor a specialist is entered.
C11_ZeroMatchesEndTurn ==
    [][(SupervisorReturned /\ decision'.targets = <<>>)
        => /\ node' = "END"
           /\ final_response' = Response(decision'.text)]_vars
\* no category matched and the knowledge base returned nothing
C11_Witness ==
    /\ node = "END"
    /\ decision.set
    /\ decision.text = <<"justice">>
    /\ decision.targets = <<>>
    /\ context.knowledge_base_results = <<>>
    /\ final_response = Response(decision.text)

\* C12: for every Command supervisor_node returns after classifying, the
\* target list is non-empty exactly when the node entered next is the one
\* that routes to the specialists (human_feedback), and empty exactly when it
\* is END.
C12_TargetsIffRoute ==
    [][SupervisorReturned
        => /\ node' = decision'.goto
           /\ (decision'.targets # <<>>) <=> (node' = "human_feedback")
           /\ (decision'.targets = <<>>) <=> (node' = "END")]_vars
C12_Witness ==
    /\ node = "human_feedback"
    /\ decision.set
    /\ decision.goto = "human_feedback"
    /\ decision.targets = <<"liv">>
    /\ specialists_to_call = <<"liv">>

\* C13: in every reachable state, final_response being set implies that the
\* turn is at the terminal state.
C13_FinalResponseOnlyAtTerminal == final_response.set => node = "END"

\* C14: whenever the turn is at the terminal state, specialists_to_call is
\* empty.
C14_NoSpecialistsAtTerminal == node = "END" => specialists_to_call = <<>>

\* C15: integrate_responses_node run on an empty specialist_responses goes
\* to the supervisor with the error set and leaves final_response unset.
C15_EmptyIntegrationReturnsToSupervisor ==
    [][(node = "integrate" /\ steps' # steps /\ specialist_responses = <<>>)
        => /\ node' = "supervisor"
           /\ error' = NoSpecialistResponses
           /\ ~final_response'.set]_vars
C15_Witness ==
    /\ node = "supervisor"
    /\ steps = 1
    /\ specialist_responses = <<>>
    /\ error = NoSpecialistResponses
    /\ ~final_response.set

\* C16: every turn terminates: a turn that has entered the supervisor
\* eventually reaches the terminal state (or ends with an exception).
C16_TurnTerminates ==
    [](node = "supervisor" => <>(node \in {"END", "raised"}))

\* C17: a turn whose round had exactly one target specialist, which ran and
\* recorded its response, ends with the composite of that response as
\* final_response.
C17_SingleSpecialistComposite ==
    (/\ node = "END"
     /\ Len(specialists_to_call) = 1
     /\ Len(specialist_responses) = 1
     /\ specialist_responses[1].specialist = specialists_to_call[1])
    => final_response = Response(Composite(specialist_responses))

\* C18: when a specialist round is over (control is back at the supervisor
\* or at integrate), every target of the decision has run once, in order.
C18_EveryTargetExecutes ==
    (node \in {"supervisor", "integrate"} /\ decision.set /\ executed # <<>>)
        => executed = decision.targets

\* C19: a specialist completion records its response under its own ID, keeps
\* the entries other specialists recorded, and the node entered next is
\* integrate.
C19_CompletionRecordsAndIntegrates ==
    [][(node \in SpecialistNodes /\ steps' # steps /\ node' # "raised")
        => /\ node' = "integrate"
           /\ \E i \in 1..Len(specialist_responses') :
                 specialist_responses'[i].specialist = node
           /\ \A i \in 1..Len(specialist_responses) :
                 specialist_responses[i].specialist # node
                    => \E j \in 1..Len(specialist_responses') :
                          specialist_responses'[j] = specialist_responses[i]]_vars

\* C20: the composite integrate_responses_node builds has one section for
\* each recorded response, in the priority order liv, jasmine, marcus,
\* miguel.
Headings == {Heading(s) : s \in SpecialistNodes}
HeadingsOf(text) == SelectSeq(text, LAMBDA w : w \in Headings)
Recorded(responses) == {responses[i].specialist : i \in 1..Len(responses)}
PriorityHeadings(responses) ==
    LET chosen == SelectSeq(Priority, LAMBDA s : s \in Recorded(responses))
    IN [i \in 1..Len(chosen) |-> Heading(chosen[i])]
Rejected ==
    node = "supervisor" /\ decision.goto = "human_feedback" /\ executed = <<>>
C21_ApprovalAndRejectionOccur ==
    /\ [][(node = "human_feedback" /\ node' # node /\ specialists_to_call # <<>>)
            => node' \in {specialists_to_call[1], "supervisor"}]_vars
    /\ ([]<>(node = "human_feedback") => <>Rejected)

\* C22: the checkpoint is a suspension point: control leaves human_feedback
\* only on a feedback input that arrived from outside, and the routing
\* state (targets, reasons, context) is the same after the wait.
C22_SuspendsUntilFeedback ==
    [][(node = "human_feedback" /\ node' # "human_feedback")
        => /\ Feedback \in ExternalFeedback
           /\ UNCHANGED <<specialists_to_call, routing_reasons, context>>]_vars

\* C23: no failure inside a routing node leaves the node as an exception
\* raised to the caller ("raised" is the value of node after one did).
C23_FailureDegradesToTerminal == node # "raised"

\* C24: when search_knowledge_base returned an empty list or the single
\* synthetic error record, the context the supervisor builds for its agent
\* carries no knowledge-base results.
C24_NoGroundingOnRetrievalFailure ==
    ~IsRecordList(context.knowledge_base_results)
        => context.knowledge_base_results = <<>>

\* C25: in a round with several matched specialists, the step of one
\* specialist never ends the turn with its failure: control goes on to
\* another target, to integrate or back to the supervisor.
C25_SpecialistFailureDoesNotBlock ==
    [][(node \in SpecialistNodes /\ steps' # steps /\ Len(decision.targets) > 1)
        => node' # "raised"]_vars

\* C30: the keywords the direct-connection fallback searches for are the
\* first three of the query's tokens that are longer than 2 characters,
\* and direct_db_query is called whenever there is such a token.
LongTokens(q) == SelectSeq(LowerSplit(q), LAMBDA t : TokenLen(t) > MinKeywordLen)
FirstThreeLong(q) ==
    SubSeq(LongTokens(q), 1, Min(KeywordLimit, Len(LongTokens(q))))
C30_KeywordsAreFirstThreeLong ==
    [][(pc = "direct" /\ pc' # "direct")
        => /\ conditions' = FirstThreeLong(query)
           /\ (Len(calls') > Len(calls)) <=> (LongTokens(query) # <<>>)]_vars

\* C29: an entry leaves the cache only in an expiry or in an explicit
\* deletion of its own key, and a deletion leaves every other entry as it
\* is. The first search for q after its key was deleted finds no entry: it
\* is not a hit and goes on to the strategies; when it obtains a non-empty
\* result and the write succeeds it stores the entry again. No step of a
\* search touches the entry of another query, and an entry that is present
\* when its key is probed successfully is a hit.
CallStep == pc' # pc
C29_LeavesOnlyByExpiryOrInvalidation ==
    [][/\ \A q \in Queries :
             (redis_data[q].present /\ ~redis_data'[q].present)
                => /\ ~CallStep
                   /\ q \in deleted' \/ redis_data[q].ttl > 0
       /\ \A q \in Queries :
             (deleted' # deleted /\ ~CallStep /\ q \in deleted' \ deleted)
                => \A o \in Queries \ {q} : redis_data'[o] = redis_data[o]
       /\ (pc = "probe" /\ CallStep /\ query \in deleted)
             => ~hit' /\ pc' = "similarity" /\ probed'.invalidated
       /\ (pc = "probe" /\ CallStep /\ redis_data[query].present /\ probed'.ok)
             => hit' /\ pc' = "returned"
       /\ (pc = "writeback" /\ CallStep /\ probed.invalidated /\ written'.done)
             => redis_data'[query] = Setex(CacheTtl, JsonDumps(results))
       /\ CallStep
             => \A o \in Queries \ {query'} : redis_data'[o] = redis_data[o]
      ]_vars

\* C29 as stated: the search that follows the deletion of its key always
\* stores the entry again.
C29_NextSearchRepopulates ==
    [][(pc = "writeback" /\ CallStep /\ probed.invalidated)
        => redis_data'[query].present]_vars

\* a search after the deletion of its own key missed, ran the strategies
\* and stored its result again
C29_Witness ==
    /\ pc = "returned"
    /\ probed.invalidated
    /\ ~hit
    /\ calls # <<>>
    /\ prev.valid /\ prev.query = query /\ prev.stored
    /\ written.done
    /\ redis_data[query] = Setex(CacheTtl, JsonDumps(ret))

\* C26: under every interleaving of concurrent calls, a key holds nothing
\* or exactly the complete result one of the calls wrote; a successful
\* write replaces the entry by the writer's own result, whatever the key
\* held before, and changes no other key.
EntryOf(value) == Setex(CacheTtl, JsonDumps(value))
C26_AtomicLastWriterWins ==
    /\ [](\A q \in Queries :
            redis_data[q].present
               => \E w \in Workers : /\ workers[w].wrote
                                     /\ workers[w].query = q
                                     /\ redis_data[q] = EntryOf(workers[w].results))
    /\ [][\A w \in Workers :
            (workers[w].pc = "writeback" /\ workers'[w].wrote)
               => /\ redis_data'[workers[w].query] = EntryOf(workers[w].results)
                  /\ \A o \in Queries \ {workers[w].query} :
                        redis_data'[o] = redis_data[o]]_vars

\* two calls wrote different results under one key, and the key holds the
\* complete result of one of them
C26_Witness ==
    /\ \A w \in Workers : workers[w].wrote
    /\ \E v, w \in Workers :
          /\ workers[v].query = workers[w].query
          /\ workers[v].results # workers[w].results
          /\ redis_data[workers[w].query] = EntryOf(workers[w].results)

\* C27: get_current_user returns the pair only when the token decoded and
\* the identity provider answered 200, and every failed verification
\* (absent value, no token part, invalid or expired token, provider
\* unreachable or timing out, non-200 answer) ends in the 401 error.
VerificationFailed ==
    \/ ~Truthy(auth.authorization)
    \/ Len(auth.authorization.val) < 2
    \/ auth.payload.raise # "none"
    \/ auth.response.raise # "none"
    \/ auth.response.status # StatusOk
C27_FailedVerificationIs401 ==
    auth.pc = "done"
        => /\ auth.result.kind = "return" => ~VerificationFailed
           /\ VerificationFailed => auth.result = AuthException

\* C28: update_state and add_message_to_state leave the input state as it
\* was before the call, and the state add_message_to_state returns, when
\* the caller's keyword arguments do not themselves name `messages`, holds
\* the previous messages in order followed by exactly the one new message.
AddReturned == chat.pc = "done" /\ chat.op = "add_message_to_state" /\ ~chat.raised
AppendedOne ==
    chat.returned.messages =
        Append(chat.before.messages, Message(chat.content, chat.role))
KeywordCalled == pc = "keyword" /\ Len(calls') > Len(calls)
C31_KeywordFallbackFirstToken ==
    [][KeywordCalled
        => /\ results = <<>>
           /\ main_keyword' = LowerSplit(query)[1]
           /\ \A i \in 1..Len(results') :
                 /\ origin'[i] = "keyword"
                 /\ results'[i].similarity = KeywordSimilarity
           /\ KeywordSimilarity # DirectSimilarity]_vars

\* a query of several tokens was answered by the keyword fallback
C31_Witness ==
    /\ pc = "returned"
    /\ Len(query) > 1
    /\ calls # <<>>
    /\ calls[Len(calls)] = "keyword"
    /\ main_keyword = LowerSplit(query)[1]
    /\ results # <<>>
    /\ ret = results

\* C32: in one call each strategy is invoked at most once, the cache is
\* read at most once and written at most once, and no strategy is invoked
\* once the result holds a record.
C32_BoundedFallbackDepth ==
    /\ [](/\ \A i, j \in 1..Len(calls) : calls[i] = calls[j] => i = j
          /\ cacheReads <= 1
          /\ cacheWrites <= 1)
    /\ [][Len(calls') > Len(calls) => results = <<>>]_vars

\* C33: every value stored under a key is a non-empty list of records
\* that the strategies of a call for that same query produced; a call
\* that ends with an empty result or an error record writes nothing, so
\* a key that was absent when such a call probed it is absent when the
\* call returns.
StoredValue(q) == JsonLoads(redis_data[q].data)
C33_OnlyRecordsAreCached ==
    /\ [](\A q \in Queries :
            redis_data[q].present
               => StoredValue(q) # <<>> /\ IsRecordList(StoredValue(q)))
    /\ [](pc = "returned" /\ (ret = <<>> \/ IsErrorList(ret))
            => /\ cacheWrites = 0
               /\ (probed.ok /\ ~probed.present) => ~redis_data[query].present)
    /\ [][\A q \in Queries :
            redis_data'[q] # redis_data[q] /\ redis_data'[q].present
               => /\ pc = "writeback" /\ q = query
                  /\ redis_data'[q].data = JsonDumps(results)
                  /\ Len(origin) = Len(results)]_vars

\* a call that found nothing left its key absent, and the next call for
\* the same query ran the strategies again and cached what they produced
C33_Witness ==
    /\ pc = "returned"
    /\ prev.valid /\ prev.query = query /\ prev.ret = <<>>
    /\ ~hit /\ calls # <<>>
    /\ written.done
    /\ StoredValue(query) = ret

\* C34: a cache read that fails is a miss after which the strategies run,
\* a cache write that fails leaves the returned records as they are, and
\* neither makes the call raise or return an error record.
C34_CacheFailuresAreSilent ==
    [][/\ (pc = "probe" /\ pc' # pc /\ redis_available /\ ~probed'.ok)
             => ~hit' /\ pc' = "similarity" /\ ~escaped'
       /\ (pc = "probe" /\ pc' # pc /\ ~redis_available)
             => ~hit' /\ pc' = "similarity" /\ cacheReads' = cacheReads
       /\ (pc = "writeback" /\ pc' # pc)
             => ret' = results /\ ~escaped' /\ pc' = "returned"]_vars

\* an entry was there, the read failed, the strategies ran, and the write
\* of their result failed too: the records are returned all the same
C34_Witness ==
    /\ pc = "returned"
    /\ probed.present /\ ~probed.ok
    /\ calls # <<>>
    /\ cacheWrites = 1 /\ ~written.done
    /\ ret = results /\ ret # <<>>

C36_NoMessagesEndsWithError ==
    [][(node = "supervisor" /\ messages = <<>> /\ steps' # steps)
        => /\ node' = "END"
           /\ error' = "No messages found"
           /\ UNCHANGED <<final_response, specialists_to_call, routing_reasons,
                          context, decision>>]_vars

\* a turn without messages has ended with the error
C36_Witness ==
    /\ node = "END"
    /\ messages = <<>>
    /\ error = "No messages found"
    /\ ~final_response.set
    /\ ~decision.set

\* C37: the state update_state returns (and so the one add_message_to_state
\* returns) is of the same variant as the input and keeps the fields of
\* that variant, which no update of the model names.
C37_VariantIsPreserved ==
    (chat.pc = "done" /\ ~chat.raised)
        => /\ chat.returned.kind = chat.before.kind
           /\ chat.returned.variant_fields = chat.before.variant_fields

\* C38: once invalidate_session(s) has returned True, the key of s does not
\* exist, no get_session(s) that completes afterwards returns session
\* data, and no get_user_sessions that completes afterwards lists s.
C38_InvalidationIsFinal ==
    /\ [](\A sid \in invalidated : ~store.session[sid])
    /\ [][\A p \in Procs :
            /\ (procs[p].pc = "get_session_setex" /\ procs'[p].pc # procs[p].pc
                /\ procs[p].caller = "none")
                  => procs[p].sid \notin invalidated
            /\ (procs[p].pc = "get_user_sessions_loop" /\ procs'[p].pc = "idle")
                  => procs[p].listed \cap invalidated = {}]_vars

\* C39: when no add_message call is in progress, the message_count of the
\* chat metadata equals the length of the chat's message list.
C39_CountMatchesMessages ==
    (\A p \in Procs : procs[p].pc = "idle")
        => store.meta.message_count = Len(store.list)

====
